---- MODULE Spec2Model ----
(***************************************************************************)
(* Vector spine protocol: the head<->body framing layer (src/src/spine.cpp) *)
(* and the body-to-head relay (src/src/listener.cpp).                       *)
(*                                                                          *)
(* Bytes are 0..255.  A 32-bit word is the tuple of its four bytes, least   *)
(* significant first, which is also how the little-endian host stores it.   *)
(* A buffer of BufSize bytes that started as zeros (a global array) is the  *)
(* sequence of its bytes up to the highest offset written so far; the bytes *)
(* above that are still zero.  The byte at C offset ofs is element ofs + 1, *)
(* read with At and Slice and written with Put and Copy.                    *)
(***************************************************************************)
EXTENDS Integers, Sequences, FiniteSets, TLC

(***************************************************************************)
(* Frame layout constants (spine.cpp enum, spine.h enum)                    *)
(***************************************************************************)
sync == 170
message_type_ofs == 4
payload_size_ofs == 6
payload_ofs == 8
\* uint8_t recv_buffer[1028+payload_ofs+4]
MaxPayload == 1028
BufSize == MaxPayload + payload_ofs + 4
\* (MessageType)-1
InvalidType == -1

\* enum class MessageType
dataCharacter == 25444
dataFrame == 25702
shutdown == 25715
updateFirmware == 26229
mode == 28004
version == 29302
lights == 29548
validate == 29556
erase == 30840
bootFrame == 26210
ack == 27489
VS == 29558

\* character codes of the tag bytes
ChH == 72
Ch2 == 50
ChB == 66

Byte == 0..255
Dirs == {"H2B", "B2H"}

(***************************************************************************)
(* Fixed-width conversions                                                  *)
(***************************************************************************)
\* conversion of an int to uint8_t
ToUint8(v) == v % 256
\* an operator with the parameter of ToUint16 that turns a negative value into 0
ToUint16_Clamped(v) == IF v < 0 THEN 0 ELSE v % 65536

\* conversion of an int or size_t to uint16_t
ToUint16(v) == v % 65536

Zeros(n) == [i \in 1..n |-> 0]

\* the buffer with its first n bytes spelled out
Pad(buffer, n) == IF Len(buffer) >= n THEN buffer ELSE buffer \o Zeros(n - Len(buffer))

\* buffer[ofs]
At(buffer, ofs) == IF ofs < Len(buffer) THEN buffer[ofs + 1] ELSE 0

\* memcpy(buffer+ofs, bytes, Len(bytes))
Copy(buffer, ofs, bytes) ==
    IF bytes = <<>> THEN buffer
    ELSE LET b == Pad(buffer, ofs + Len(bytes))
         IN  SubSeq(b, 1, ofs) \o bytes \o SubSeq(b, ofs + Len(bytes) + 1, Len(b))

\* buffer[ofs] = v
Put(buffer, ofs, v) == Copy(buffer, ofs, <<v>>)

\* the n bytes buffer[ofs] .. buffer[ofs+n-1]
Slice(buffer, ofs, n) == SubSeq(Pad(buffer, ofs + n), ofs + 1, ofs + n)

\* a 16-bit value as its two bytes on a little-endian host
LE16(v) == <<v % 256, v \div 256>>

\* *(uint16_t*)(buffer+ofs) = v on a little-endian host
Store16(buffer, ofs, v) == Copy(buffer, ofs, LE16(v))

\* *(uint16_t*)(buffer+ofs) on a little-endian host
Load16(buffer, ofs) == At(buffer, ofs) + 256 * At(buffer, ofs + 1)

\* *(uint32_t*)(buffer+ofs) on a little-endian host, as its four bytes
Load32(buffer, ofs) == Slice(buffer, ofs, 4)

\* *(uint32_t*)(buffer+ofs) = w on a little-endian host
Store32(buffer, ofs, w) == Copy(buffer, ofs, w)

(***************************************************************************)
(* CRC32 (crc32_le of the ESP32 ROM, named crc32 by spine.cpp line 19).     *)
(* Reflected CRC-32, polynomial 0xEDB88320, register started from the first *)
(* argument, no final XOR.                                                  *)
(***************************************************************************)
RECURSIVE Xor(_, _)
Xor(a, b) ==
    IF a = 0 THEN b
    ELSE IF b = 0 THEN a
    ELSE ((a + b) % 2) + 2 * Xor(a \div 2, b \div 2)

XorTable == [a \in Byte |-> [b \in Byte |-> Xor(a, b)]]

XorWord(v, w) == [i \in 1..4 |-> XorTable[v[i]][w[i]]]

\* w >> 1
ShiftRight1(w) ==
    [i \in 1..4 |-> (w[i] \div 2) + (IF i < 4 THEN (w[i + 1] % 2) * 128 ELSE 0)]

\* 0xEDB88320
CrcPoly == <<32, 131, 184, 237>>

RECURSIVE CrcBits(_, _)
CrcBits(w, k) ==
    IF k = 0 THEN w
    ELSE CrcBits(IF w[1] % 2 = 1 THEN XorWord(CrcPoly, ShiftRight1(w))
                 ELSE ShiftRight1(w), k - 1)

CrcTable == [n \in Byte |-> CrcBits(<<n, 0, 0, 0>>, 8)]

\* one byte: table[(crc ^ b) & 0xFF] ^ (crc >> 8)
\* (the bound variable c has the register computed once, before its four bytes are used)
CrcByte(crc, b) ==
    LET next(c) == XorWord(CrcTable[XorTable[c[1]][b]], <<c[2], c[3], c[4], 0>>)
    IN  CHOOSE w \in UNION {{<<x[1], x[2], x[3], x[4]>> : x \in {next(c)}} : c \in {crc}} : TRUE

\* elements lo .. hi of a byte sequence folded into crc, in order
RECURSIVE CrcRange(_, _, _, _)
CrcRange(crc, buffer, lo, hi) ==
    IF lo > hi THEN crc
    ELSE IF lo = hi THEN CrcByte(crc, buffer[lo])
    ELSE LET mid == (lo + hi) \div 2
         \* the bound variable left has the first half folded before the second starts
         IN  CHOOSE w \in {CrcRange(left, buffer, mid + 1, hi) :
                              left \in {CrcRange(crc, buffer, lo, mid)}} : TRUE

\* ~0UL as a uint32_t
AllOnes == <<255, 255, 255, 255>>

\* crc32(~0UL, buffer+ofs, len)
crc32(buffer, ofs, len) == CrcRange(AllOnes, Pad(buffer, ofs + len), ofs + 1, ofs + len)

(***************************************************************************)
(* Per-direction size tables and headers                                    *)
(***************************************************************************)
\* int H2B::size(MessageType command)
\* an operator with the parameter of H2B_size that gives dataFrame the size it has
\* in the other direction
H2B_size_DataFrame768(command) ==
    CASE command = dataCharacter -> 32
      [] command = dataFrame -> 768
      [] command = shutdown -> 0
      [] command = updateFirmware -> 1028
      [] command = mode -> 0
      [] command = version -> 0
      [] command = lights -> 16
      [] command = validate -> 0
      [] command = erase -> 0
      [] OTHER -> -1

H2B_size(command) ==
    CASE command = dataCharacter  -> 32
      [] command = dataFrame      -> 64
      [] command = shutdown       -> 0
      [] command = updateFirmware -> 1028
      [] command = mode           -> 0
      [] command = version        -> 0
      [] command = lights         -> 16
      [] command = validate       -> 0
      [] command = erase          -> 0
      [] OTHER                    -> -1

\* int B2H::size(MessageType command)
B2H_size(command) ==
    CASE command = dataCharacter  -> 32
      [] command = updateFirmware -> 32
      [] command = dataFrame      -> 768
      [] command = bootFrame      -> 0
      [] command = ack            -> 4
      [] command = version        -> 40
      [] command = validate       -> 0
      [] OTHER                    -> -1

\* size() of namespace d
size(d, command) == IF d = "H2B" THEN H2B_size(command) ELSE B2H_size(command)

\* the sync byte and the three tag bytes of namespace d, in wire order
\* an operator with the parameter of Prefix that gives both directions one tag
Prefix_OneTag(d) == <<sync, ChH, Ch2, ChB>>

Prefix(d) == IF d = "H2B" THEN <<sync, ChH, Ch2, ChB>> ELSE <<sync, ChB, Ch2, ChH>>

\* populateHeader(buffer, message_type) of namespace d: the buffer afterwards
\* an operator with the parameters of populateHeader that leaves the size field
\* as it was
populateHeader_NoSize(d, buffer, message_type) ==
    LET b0 == Put(Put(Put(Put(buffer, 0, Prefix(d)[1]), 1, Prefix(d)[2]), 2, Prefix(d)[3]), 3, Prefix(d)[4])
    IN  Store16(b0, message_type_ofs, ToUint16(message_type))

populateHeader(d, buffer, message_type) ==
    LET b0 == Put(Put(Put(Put(buffer, 0, Prefix(d)[1]), 1, Prefix(d)[2]),
                      2, Prefix(d)[3]), 3, Prefix(d)[4])
        b1 == Store16(b0, message_type_ofs, ToUint16(message_type))
    IN  Store16(b1, payload_size_ofs, ToUint16(size(d, message_type)))

(***************************************************************************)
(* The stream (tests/mockStream.cpp): its bytes and a read index            *)
(***************************************************************************)
\* MockStream::read: the value returned
StreamRead(stream, idx) == IF idx < Len(stream) THEN stream[idx + 1] ELSE -1

\* MockStream::read: the read index afterwards
StreamAdvance(stream, idx) == IF idx < Len(stream) THEN idx + 1 ELSE idx

\* MockStream::readBytes(buffer+base, n): the buffer and the read index afterwards
readBytes(stream, idx, buffer, base, n) ==
    LET avail == Len(stream) - idx
        cnt == IF n < avail THEN n ELSE avail
    IN  [buffer |-> Copy(buffer, base, SubSeq(stream, idx + 1, idx + cnt)),
         readIndex |-> idx + cnt]

\* MockStream::write(data, size): data[0 .. size-1] appended
\* an operator with the parameters of StreamWrite that leaves the last four bytes out
StreamWrite_NoTrailer(stream, data, n) == stream \o Slice(data, 0, n - 4)

StreamWrite(stream, data, n) == stream \o Slice(data, 0, n)

(***************************************************************************)
(* ReceiveMessage                                                           *)
(***************************************************************************)
\* an operator with the parameters of waitFor that hands the mismatching byte
\* back to the stream
waitFor_Unread(st, stream, c) ==
    IF ~st.running THEN st
    ELSE LET v == ToUint8(StreamRead(stream, st.readIndex))
         IN  [buffer |-> Put(st.buffer, st.offset, v),
              readIndex |-> IF v # c THEN st.readIndex
                            ELSE StreamAdvance(stream, st.readIndex),
              offset |-> IF v # c THEN st.offset ELSE st.offset + 1,
              running |-> v = c]

\* waitFor(c): st is the call's buffer, read index, offset and whether it still runs
waitFor(st, stream, c) ==
    IF ~st.running THEN st
    ELSE LET v == ToUint8(StreamRead(stream, st.readIndex))
         IN  [buffer |-> Put(st.buffer, st.offset, v),
              readIndex |-> StreamAdvance(stream, st.readIndex),
              offset |-> IF v # c THEN st.offset ELSE st.offset + 1,
              running |-> v = c]

\* The four waitFor lines of ReceiveMessage in namespace d
WaitPrefix(d, buffer, stream, idx) ==
    LET s0 == [buffer |-> buffer, readIndex |-> idx, offset |-> 0, running |-> TRUE]
        s1 == waitFor(s0, stream, Prefix(d)[1])
        s2 == waitFor(s1, stream, Prefix(d)[2])
        s3 == waitFor(s2, stream, Prefix(d)[3])
    IN  waitFor(s3, stream, Prefix(d)[4])

\* an operator with the parameter of CrcOffset that gives the offset right after
\* the payload
CrcOffset_AfterPayload(len) == payload_ofs + len

\* The offset at which ReceiveMessage, DataCharacterMsg and the relay place the CRC word
CrcOffset(len) == payload_ofs + len + 4

\* an operator with the parameters of TypeOrSizeBad that never compares the sizes
TypeOrSizeBad_TypeOnly(expected_size, declared) == expected_size < 0

\* an operator with the parameters of TypeOrSizeBad that lets a smaller size pass
TypeOrSizeBad_AtMost(expected_size, declared) == expected_size < 0 \/ declared > expected_size

\* an operator with the parameters of TypeOrSizeBad that forgets the unknown types
TypeOrSizeBad_KnownOnly(expected_size, declared) ==
    expected_size >= 0 /\ expected_size # declared

\* if (expected_size < 0 || expected_size != payload_size)
TypeOrSizeBad(expected_size, declared) == expected_size < 0 \/ expected_size # declared

\* an operator with the parameter of PayloadReadLength that leaves the trailer unread
PayloadReadLength_NoTrailer(declared) == declared

\* in.readBytes(recv_buffer+payload_ofs, payload_size+4): how many bytes are asked for
PayloadReadLength(declared) == declared + 4

\* ReceiveMessage(in, payload_size) of namespace d: the outcomes the call can have.
\* size0 is what the caller's payload_size holds before the call.  An outcome is
\* the buffer, the read index, payload_size and the returned type afterwards, and
\* top, the highest index of recv_buffer the call read or wrote: the offset of
\* the failing waitFor, the last header byte, or the last byte of the CRC word
\* that is compared.
\* There is one outcome, except when the CRC word is read past the end of
\* recv_buffer (undefined behaviour): the comparison may then go either way.
ReceiveMessage(d, buffer, stream, idx, size0) ==
    LET w == WaitPrefix(d, buffer, stream, idx)
        h == readBytes(stream, w.readIndex, w.buffer, message_type_ofs, 4)
        message_type == Load16(h.buffer, message_type_ofs)
        declared == Load16(h.buffer, payload_size_ofs)
        expected_size == size(d, message_type)
        p == readBytes(stream, h.readIndex, h.buffer, payload_ofs, PayloadReadLength(declared))
        crc == crc32(p.buffer, payload_ofs, declared)
        crc_matches == IF CrcOffset(declared) + 4 <= BufSize
                       THEN {crc = Load32(p.buffer, CrcOffset(declared))}
                       ELSE BOOLEAN
    IN  IF ~w.running
        THEN {[buffer |-> w.buffer, readIndex |-> w.readIndex, payload_size |-> size0,
               ret |-> InvalidType, top |-> w.offset]}
        ELSE IF TypeOrSizeBad(expected_size, declared)
        THEN {[buffer |-> h.buffer, readIndex |-> h.readIndex, payload_size |-> 0,
               ret |-> InvalidType, top |-> payload_ofs - 1]}
        ELSE {IF crc_ok
              THEN [buffer |-> p.buffer, readIndex |-> p.readIndex,
                    payload_size |-> declared, ret |-> message_type,
                    top |-> CrcOffset(declared) + 3]
              ELSE [buffer |-> p.buffer, readIndex |-> p.readIndex,
                    payload_size |-> 0, ret |-> InvalidType,
                    top |-> CrcOffset(declared) + 3] : crc_ok \in crc_matches}

(***************************************************************************)
(* Encode helper, send, hooks                                               *)
(***************************************************************************)
\* an operator with the parameters of Min that applies no limit
Min_NoLimit(a, b) == a

\* std::min
Min(a, b) == IF a < b THEN a ELSE b

\* DataCharacterMsg(text, numBytes) of namespace d: the buffer afterwards.
\* text is the caller's bytes; numBytes <= Len(text) of them are readable.
DataCharacterMsg(d, buffer, text, numBytes) ==
    LET b1 == populateHeader(d, buffer, dataCharacter)
        n == Min(numBytes, 31)
        b2 == Copy(b1, payload_ofs, SubSeq(text, 1, n))
        b3 == Put(b2, payload_ofs + n, 0)
        len == size(d, dataCharacter)
        crc == crc32(b3, payload_ofs, len)
    IN  Store32(b3, CrcOffset(len), crc)

\* an operator with the parameter of ProcessDataCharacter that does not stop at a NUL
ProcessDataCharacter_NoStop(buffer) == [k \in 1..32 |-> At(buffer, payload_ofs + k - 1)]

\* bool process(DataCharacter& value): the bytes written to Serial
ProcessDataCharacter(buffer) ==
    LET text == [idx \in 0..31 |-> At(buffer, payload_ofs + idx)]
        stop == IF \E idx \in 0..31 : text[idx] = 0
                THEN CHOOSE idx \in 0..31 : text[idx] = 0 /\ \A j \in 0..(idx - 1) : text[j] # 0
                ELSE 32
    IN  [k \in 1..stop |-> text[k - 1]]

\* an operator with the parameters of processBody2Head whose dataCharacter hook
\* blanks the text and reports the change
processBody2Head_Rewrites(msg_type, buffer) ==
    IF msg_type = dataCharacter
    THEN [echo |-> ProcessDataCharacter(buffer), modified |-> TRUE,
          buffer |-> Put(buffer, payload_ofs, 0)]
    ELSE [echo |-> <<>>, modified |-> FALSE, buffer |-> buffer]

\* bool processBody2Head(MessageType msg_type): the bytes written to Serial, the
\* returned flag and B2H::recv_buffer afterwards; the hooks process(Ack&),
\* process(DataCharacter&) and process(B2HDataFrame&) assign to nothing
processBody2Head(msg_type, buffer) ==
    [echo |-> IF msg_type = dataCharacter THEN ProcessDataCharacter(buffer) ELSE <<>>,
     modified |-> FALSE,
     buffer |-> buffer]

(***************************************************************************)
(* Input streams                                                            *)
(***************************************************************************)
\* the bytes 1, 2, 3, ... of a payload of n bytes
Ramp(n) == [i \in 1..n |-> i % 256]
CrcOf(payload) == CrcRange(AllOnes, payload, 1, Len(payload))

Frame(d, t, declared, payload, trailer) ==
    Prefix(d) \o LE16(t) \o LE16(declared) \o payload \o trailer

ValidFrame(d, t, payload) == Frame(d, t, Len(payload), payload, CrcOf(payload))

\* bit b of byte number pos (from 1) inverted
FlipBit(bytes, pos, b) ==
    [bytes EXCEPT ![pos] = XorTable[bytes[pos]][2 ^ b]]

H2BTypes == {dataCharacter, dataFrame, shutdown, updateFirmware, mode, version,
             lights, validate, erase}
B2HTypes == {dataCharacter, updateFirmware, dataFrame, bootFrame, ack, version, validate}
KnownTypes(d) == IF d = "H2B" THEN H2BTypes ELSE B2HTypes
AllTypes == H2BTypes \cup B2HTypes \cup {VS}

\* "Hi"
TextHi == <<72, 105>>
HiPayload == TextHi \o Zeros(30)
\* a text of 32 characters, one more than the text field takes
LongText == [i \in 1..32 |-> 64 + i]

\* a type of each direction with an empty payload, and one with a short payload
EmptyType(d) == IF d = "H2B" THEN shutdown ELSE bootFrame
ShortType(d) == IF d = "H2B" THEN lights ELSE ack

\* how many garbage bytes may precede a frame
MaxGarbage == 2

\* one valid frame of every type of every direction
ValidStreams ==
    {ValidFrame(d, t, Ramp(size(d, t))) : d \in {"H2B"}, t \in H2BTypes}
    \cup {ValidFrame(d, t, Ramp(size(d, t))) : d \in {"B2H"}, t \in B2HTypes}
    \cup {ValidFrame(d, dataCharacter, HiPayload) : d \in Dirs}

\* a valid frame with one bit of its payload or of its trailer inverted
FlippedStreams ==
    {FlipBit(ValidFrame(d, dataCharacter, HiPayload), pos, 0) : d \in Dirs, pos \in {9, 44}}
    \cup UNION {{FlipBit(ValidFrame(d, ShortType(d), Ramp(size(d, ShortType(d)))), pos, 7) :
                    pos \in {9, 8 + size(d, ShortType(d)) + 1}} : d \in Dirs}
    \cup {FlipBit(ValidFrame(d, EmptyType(d), <<>>), 12, 3) : d \in Dirs}

\* garbage bytes, none of them the sync byte, then a valid frame
GarbageStreams ==
    {Zeros(n) \o ValidFrame(d, EmptyType(d), <<>>) : n \in 1..MaxGarbage, d \in Dirs}
    \cup {Zeros(n) \o ValidFrame("B2H", ack, Ramp(4)) : n \in 1..MaxGarbage}
    \cup {Zeros(n) \o FlipBit(ValidFrame("B2H", bootFrame, <<>>), 12, 3) : n \in 1..MaxGarbage}

\* a stray sync byte, then a valid frame
StraySyncStreams == {<<sync>> \o ValidFrame(d, ShortType(d), Ramp(size(d, ShortType(d)))) : d \in Dirs}

\* the first k bytes of the prefix, a byte that is not the next one, then a valid frame
BrokenPrefixStreams ==
    {SubSeq(Prefix(d), 1, k) \o <<1>> \o ValidFrame(d, EmptyType(d), <<>>) : d \in Dirs, k \in 1..3}

\* a type the direction does not know, or a declared size that is not the table's;
\* payload and trailer consistent with the declared size; then a valid frame
RejectedStreams ==
    {Frame(d, VS, 4, Ramp(4), CrcOf(Ramp(4))) \o ValidFrame(d, EmptyType(d), <<>>) : d \in Dirs}
    \cup {Frame("H2B", ack, 4, Ramp(4), CrcOf(Ramp(4))),
          Frame("B2H", dataFrame, 64, Ramp(64), CrcOf(Ramp(64))),
          Frame("H2B", version, 40, Ramp(40), CrcOf(Ramp(40))),
          Frame("B2H", ack, 5, Ramp(5), CrcOf(Ramp(5))),
          Frame("H2B", lights, 4, Ramp(4), CrcOf(Ramp(4))),
          Frame("H2B", lights, 32, HiPayload, CrcOf(HiPayload)),
          Frame("H2B", dataFrame, 768, Ramp(768), CrcOf(Ramp(768))),
          Frame("H2B", updateFirmware, 32, Ramp(32), CrcOf(Ramp(32))),
          Frame("B2H", updateFirmware, 1028, Ramp(1028), CrcOf(Ramp(1028))),
          Frame("B2H", version, 0, <<>>, CrcOf(<<>>)),
          Zeros(1) \o Frame("B2H", ack, 0, <<>>, CrcOf(<<>>))}

\* the stream ends before the frame does
TruncatedStreams ==
    {<<>>, <<sync>>, SubSeq(Prefix("B2H"), 1, 3), Prefix("H2B"), Prefix("B2H")}
    \cup UNION {{SubSeq(ValidFrame(d, ShortType(d), Ramp(size(d, ShortType(d)))), 1, n) :
                    n \in {6, 8 + size(d, ShortType(d)) + 3}} : d \in Dirs}

\* two valid frames, one after the other
PairStreams ==
    {ValidFrame(d, ShortType(d), Ramp(size(d, ShortType(d)))) \o ValidFrame(d, EmptyType(d), <<>>) :
        d \in Dirs}
    \cup {ValidFrame(d, EmptyType(d), <<>>) \o ValidFrame(d, dataCharacter, HiPayload) : d \in Dirs}

Streams ==
    ValidStreams \cup FlippedStreams \cup GarbageStreams \cup StraySyncStreams
    \cup BrokenPrefixStreams \cup RejectedStreams \cup TruncatedStreams \cup PairStreams

(***************************************************************************)
(* State                                                                    *)
(***************************************************************************)
VARIABLES
    recv_buffer,   \* H2B::recv_buffer and B2H::recv_buffer
    in,            \* the bytes of the inbound stream
    readIndex,     \* how many of them have been read
    out,           \* the bytes written to the outbound stream
    serial,        \* the bytes written to Serial
    payload_size,  \* the caller's payload_size variable
    ret,           \* what the last operation returned
    op,            \* the last operation
    startIndex,    \* readIndex when the last operation started
    startOut,      \* Len(out) when the last operation started
    startSize,     \* payload_size when the last operation started
    calls,         \* operations so far
    ops,           \* which operations they were
    arg,           \* the arguments of the last DataCharacterMsg, populateHeader or size
    accepted,      \* the stream bytes of the frames the relay's receives returned
    top,           \* the highest index of recv_buffer the last operation read or wrote (-1: none)
    pc             \* where a ReceiveMessage call that is taken step by step stands ("Idle": no such call)

vars == <<recv_buffer, in, readIndex, out, serial, payload_size, ret, op,
          startIndex, startOut, startSize, calls, ops, arg, accepted, top, pc>>

\* operations in one run
MaxCalls == 3
\* values the caller's payload_size may hold before a ReceiveMessage call
CallerSizes == {0, 5}
\* the texts and lengths given to DataCharacterMsg
Texts == {TextHi}
TextLengths(text) == {Len(text)}
\* the payload sizes given to SendMessage
SendSizes == {32}

\* arg when the last operation was not DataCharacterMsg
NoArg == [text |-> <<>>, numBytes |-> 0]

Init ==
    /\ recv_buffer = [d \in Dirs |-> <<>>]
    /\ in \in Streams
    /\ readIndex = 0
    /\ out = <<>>
    /\ serial = <<>>
    /\ payload_size = 0
    /\ ret = 0
    /\ op = "none"
    /\ startIndex = 0
    /\ startOut = 0
    /\ startSize = 0
    /\ calls = 0
    /\ ops = {}
    /\ arg = NoArg
    /\ accepted = <<>>
    /\ top = -1
    /\ pc = "Idle"

\* what every operation records about its start
Begin(name) ==
    /\ calls' = calls + 1
    /\ op' = name
    /\ ops' = ops \cup {name}
    /\ startIndex' = readIndex
    /\ startOut' = Len(out)
    /\ pc' = pc

\* a caller's ReceiveMessage(in, payload_size) in namespace d
CallReceive(d, name) ==
    /\ calls < MaxCalls
    /\ \E size0 \in CallerSizes :
         \E r \in ReceiveMessage(d, recv_buffer[d], in, readIndex, size0) :
            /\ Begin(name)
            /\ startSize' = size0
            /\ recv_buffer' = [recv_buffer EXCEPT ![d] = r.buffer]
            /\ readIndex' = r.readIndex
            /\ payload_size' = r.payload_size
            /\ ret' = r.ret
            /\ arg' = NoArg
            /\ top' = r.top
            /\ UNCHANGED <<in, out, serial, accepted>>

H2B_ReceiveMessage == CallReceive("H2B", "H2B_ReceiveMessage")

B2H_ReceiveMessage == CallReceive("B2H", "B2H_ReceiveMessage")

\* an action with the parameters of DoDataCharacterMsg in which the two namespaces
\* share one buffer
DoDataCharacterMsg_Shared(d, name, text, numBytes) ==
    /\ Begin(name)
    /\ recv_buffer' = [e \in Dirs |-> DataCharacterMsg(d, recv_buffer[d], text, numBytes)]
    /\ ret' = size(d, dataCharacter)
    /\ startSize' = payload_size
    /\ arg' = [text |-> text, numBytes |-> numBytes]
    /\ top' = CrcOffset(size(d, dataCharacter)) + 3
    /\ UNCHANGED <<in, readIndex, out, serial, payload_size, accepted>>

\* the call DataCharacterMsg(text, numBytes) in namespace d
DoDataCharacterMsg(d, name, text, numBytes) ==
    /\ Begin(name)
    /\ recv_buffer' = [recv_buffer EXCEPT ![d] = DataCharacterMsg(d, recv_buffer[d], text, numBytes)]
    /\ ret' = size(d, dataCharacter)
    /\ startSize' = payload_size
    /\ arg' = [text |-> text, numBytes |-> numBytes]
    /\ top' = CrcOffset(size(d, dataCharacter)) + 3
    /\ UNCHANGED <<in, readIndex, out, serial, payload_size, accepted>>

\* a caller's DataCharacterMsg(text, numBytes) in namespace d
CallDataCharacterMsg(d, name) ==
    /\ calls < MaxCalls
    /\ \E text \in Texts : \E numBytes \in TextLengths(text) :
        DoDataCharacterMsg(d, name, text, numBytes)

H2B_DataCharacterMsg == CallDataCharacterMsg("H2B", "H2B_DataCharacterMsg")

B2H_DataCharacterMsg == CallDataCharacterMsg("B2H", "B2H_DataCharacterMsg")

\* the call SendMessage(out, n) in namespace d
DoSendMessage(d, name, n) ==
    /\ Begin(name)
    /\ out' = StreamWrite(out, recv_buffer[d], n + payload_ofs + 4)
    /\ startSize' = n
    /\ arg' = NoArg
    /\ top' = n + payload_ofs + 4 - 1
    /\ UNCHANGED <<recv_buffer, in, readIndex, serial, payload_size, ret, accepted>>

\* SendMessage(out, payload_size) in namespace d
CallSendMessage(d, name) ==
    /\ calls < MaxCalls
    /\ \E n \in SendSizes : DoSendMessage(d, name, n)

H2B_SendMessage == CallSendMessage("H2B", "H2B_SendMessage")

B2H_SendMessage == CallSendMessage("B2H", "B2H_SendMessage")

\* an action in the place of ReceiveAndRewriteB2HMessage that calls ReceiveMessage
\* a second time when the first call failed
ReceiveAndRewriteB2HMessage_Retry ==
    /\ calls < MaxCalls
    /\ \E r1 \in ReceiveMessage("B2H", recv_buffer["B2H"], in, readIndex, 0) :
       \E r \in (IF r1.ret = InvalidType
                 THEN ReceiveMessage("B2H", r1.buffer, in, r1.readIndex, r1.payload_size)
                 ELSE {r1}) :
        LET hook == processBody2Head(r.ret, r.buffer)
            crc == crc32(hook.buffer, payload_ofs, r.payload_size)
            buffer == Store32(hook.buffer, CrcOffset(r.payload_size), crc)
        IN  /\ Begin("ReceiveAndRewriteB2HMessage")
            /\ startSize' = 0
            /\ recv_buffer' = [recv_buffer EXCEPT !["B2H"] = buffer]
            /\ readIndex' = r.readIndex
            /\ payload_size' = r.payload_size
            /\ ret' = r.ret
            /\ serial' = serial \o hook.echo
            /\ out' = StreamWrite(out, buffer, r.payload_size + payload_ofs + 4)
            /\ arg' = NoArg
            /\ accepted' = IF r.ret = InvalidType THEN accepted
                           ELSE accepted \o SubSeq(in, readIndex + 1, r.readIndex)
            /\ top' = IF r.top < CrcOffset(r.payload_size) + 3
                      THEN CrcOffset(r.payload_size) + 3
                      ELSE r.top
            /\ UNCHANGED in

\* void ReceiveAndRewriteB2HMessage(Stream& in, Stream& out)
ReceiveAndRewriteB2HMessage ==
    /\ calls < MaxCalls
    /\ \E r \in ReceiveMessage("B2H", recv_buffer["B2H"], in, readIndex, 0) :
        LET hook == processBody2Head(r.ret, r.buffer)
            crc == crc32(hook.buffer, payload_ofs, r.payload_size)
            buffer == Store32(hook.buffer, CrcOffset(r.payload_size), crc)
        IN  /\ Begin("ReceiveAndRewriteB2HMessage")
            /\ startSize' = 0
            /\ recv_buffer' = [recv_buffer EXCEPT !["B2H"] = buffer]
            /\ readIndex' = r.readIndex
            /\ payload_size' = r.payload_size
            /\ ret' = r.ret
            /\ serial' = serial \o hook.echo
            /\ out' = StreamWrite(out, buffer, r.payload_size + payload_ofs + 4)
            /\ arg' = NoArg
            /\ accepted' = IF r.ret = InvalidType THEN accepted
                           ELSE accepted \o SubSeq(in, readIndex + 1, r.readIndex)
            /\ top' = IF r.top < CrcOffset(r.payload_size) + 3
                      THEN CrcOffset(r.payload_size) + 3
                      ELSE r.top
            /\ UNCHANGED in

Next ==
    \/ H2B_ReceiveMessage
    \/ B2H_ReceiveMessage
    \/ H2B_DataCharacterMsg
    \/ B2H_DataCharacterMsg
    \/ H2B_SendMessage
    \/ B2H_SendMessage
    \/ ReceiveAndRewriteB2HMessage

Spec == Init /\ [][Next]_vars

(***************************************************************************)
(* The encode helper and SendMessage on their own: DataCharacterMsg and     *)
(* SendMessage called with more texts, lengths and sizes, on buffers that   *)
(* hold what an earlier ReceiveMessage left in them.                        *)
(***************************************************************************)
\* calls in one run
MaxEncodeCalls == 2
\* texts of 2 and of 32 characters; numBytes 0, one less than the text, all of it
EncodeTexts == {TextHi, LongText}
EncodeLengths(text) == {0, Len(text) - 1, Len(text)}
EncodeSendSizes == {0, 4, 32}

\* frames received before the run
PriorStreams(d) ==
    {ValidFrame(d, ShortType(d), Ramp(size(d, ShortType(d)))),
     ValidFrame(d, dataCharacter, [i \in 1..32 |-> 200 + i])}

\* recv_buffer of d at program start, or after ReceiveMessage was called once
PriorBuffers(d) ==
    {<<>>} \cup UNION {{r.buffer : r \in ReceiveMessage(d, <<>>, s, 0, 0)} : s \in PriorStreams(d)}

EncodeInit ==
    /\ recv_buffer \in {[d \in Dirs |-> IF d = "H2B" THEN h ELSE b] :
                            h \in PriorBuffers("H2B"), b \in PriorBuffers("B2H")}
    /\ in = <<>>
    /\ readIndex = 0
    /\ out = <<>>
    /\ serial = <<>>
    /\ payload_size = 0
    /\ ret = 0
    /\ op = "none"
    /\ startIndex = 0
    /\ startOut = 0
    /\ startSize = 0
    /\ calls = 0
    /\ ops = {}
    /\ arg = NoArg
    /\ accepted = <<>>
    /\ top = -1
    /\ pc = "Idle"

EncodeText(d, name) ==
    /\ calls < MaxEncodeCalls
    /\ \E text \in EncodeTexts : \E numBytes \in EncodeLengths(text) :
        DoDataCharacterMsg(d, name, text, numBytes)

EncodeSend(d, name) ==
    /\ calls < MaxEncodeCalls
    /\ \E n \in EncodeSendSizes : DoSendMessage(d, name, n)

EncodeNext ==
    \/ EncodeText("H2B", "H2B_DataCharacterMsg")
    \/ EncodeText("B2H", "B2H_DataCharacterMsg")
    \/ EncodeSend("H2B", "H2B_SendMessage")
    \/ EncodeSend("B2H", "B2H_SendMessage")

EncodeSpec == EncodeInit /\ [][EncodeNext]_vars

(***************************************************************************)
(* populateHeader, size and processBody2Head on their own: each called      *)
(* once, with every type and with every 16-bit code.                        *)
(***************************************************************************)
\* the largest 16-bit type code
MaxUint16 == 65535

\* recv_buffer of d after ReceiveMessage read a dataCharacter frame
FullBuffers(d) ==
    {r.buffer : r \in ReceiveMessage(d, <<>>, ValidFrame(d, dataCharacter, [i \in 1..32 |-> 200 + i]), 0, 0)}

\* a text field with a NUL after two characters and another character after it
HiNulMore == <<72, 105, 0, 33>> \o Zeros(28)

\* recv_buffer of d after ReceiveMessage read a dataCharacter frame with that text
NulBuffers(d) ==
    {r.buffer : r \in ReceiveMessage(d, <<>>, ValidFrame(d, dataCharacter, HiNulMore), 0, 0)}

HeaderInit ==
    /\ recv_buffer \in {[d \in Dirs |-> <<>>]}
            \cup {[d \in Dirs |-> IF d = "H2B" THEN h ELSE b] :
                    h \in FullBuffers("H2B"), b \in FullBuffers("B2H")}
            \cup {[d \in Dirs |-> IF d = "H2B" THEN h ELSE b] :
                    h \in NulBuffers("H2B"), b \in NulBuffers("B2H")}
    /\ in = <<>>
    /\ readIndex = 0
    /\ out = <<>>
    /\ serial = <<>>
    /\ payload_size = 0
    /\ ret = 0
    /\ op = "none"
    /\ startIndex = 0
    /\ startOut = 0
    /\ startSize = 0
    /\ calls = 0
    /\ ops = {}
    /\ arg = NoArg
    /\ accepted = <<>>
    /\ top = -1
    /\ pc = "Idle"

\* populateHeader(recv_buffer, message_type) of namespace d
CallPopulateHeader(d, name) ==
    /\ calls = 0
    /\ \E message_type \in AllTypes :
        /\ Begin(name)
        /\ recv_buffer' = [recv_buffer EXCEPT ![d] = populateHeader(d, recv_buffer[d], message_type)]
        /\ ret' = size(d, message_type)
        /\ arg' = [message_type |-> message_type]
        /\ top' = payload_ofs - 1
        /\ UNCHANGED <<in, readIndex, out, serial, payload_size, startSize, accepted>>

\* size(command) of namespace d
CallSize(d, name) ==
    /\ calls = 0
    /\ \E command \in 0..MaxUint16 :
        /\ Begin(name)
        /\ ret' = size(d, command)
        /\ arg' = [message_type |-> command]
        /\ top' = -1
        /\ UNCHANGED <<recv_buffer, in, readIndex, out, serial, payload_size, startSize, accepted>>

\* processBody2Head(msg_type); ret is 1 for true and 0 for false
CallProcessBody2Head ==
    /\ calls = 0
    /\ \E msg_type \in (0..MaxUint16) \cup {InvalidType} :
        LET hook == processBody2Head(msg_type, recv_buffer["B2H"])
        IN  /\ Begin("processBody2Head")
            /\ recv_buffer' = [recv_buffer EXCEPT !["B2H"] = hook.buffer]
            /\ serial' = serial \o hook.echo
            /\ ret' = IF hook.modified THEN 1 ELSE 0
            /\ arg' = [message_type |-> msg_type]
            /\ top' = IF msg_type = dataCharacter
                      THEN payload_ofs + Min(Len(hook.echo), 31)
                      ELSE -1
            /\ UNCHANGED <<in, readIndex, out, payload_size, startSize, accepted>>

HeaderNext ==
    \/ CallPopulateHeader("H2B", "H2B_populateHeader")
    \/ CallPopulateHeader("B2H", "B2H_populateHeader")
    \/ CallSize("H2B", "H2B_size")
    \/ CallSize("B2H", "B2H_size")
    \/ CallProcessBody2Head

HeaderSpec == HeaderInit /\ [][HeaderNext]_vars

(***************************************************************************)
(* ReceiveMessage step by step: one step for each waitFor, for each         *)
(* readBytes, for the type and size test and for the CRC test.  pc names    *)
(* where the call stands; op names the namespace it runs in.                *)
(***************************************************************************)
\* ReceiveMessage calls in one run
MaxReceiveCalls == 2

\* recv_buffer at program start, or after DataCharacterMsg("Hi", 2) in both namespaces
ReceiveInit ==
    /\ recv_buffer \in {[d \in Dirs |-> <<>>],
                        [d \in Dirs |-> DataCharacterMsg(d, <<>>, TextHi, 2)]}
    /\ in \in Streams
    /\ readIndex = 0
    /\ out = <<>>
    /\ serial = <<>>
    /\ payload_size = 0
    /\ ret = 0
    /\ op = "none"
    /\ startIndex = 0
    /\ startOut = 0
    /\ startSize = 0
    /\ calls = 0
    /\ ops = {}
    /\ arg = NoArg
    /\ accepted = <<>>
    /\ top = -1
    /\ pc = "Idle"

\* the call has returned
Returned == pc \in {"Success", "Fail"}

\* the namespace of the running call
Running(d) == op = (IF d = "H2B" THEN "H2B_ReceiveMessage" ELSE "B2H_ReceiveMessage")

\* the caller enters ReceiveMessage(in, payload_size) of namespace d: int offset = 0
StartReceive(d, name) ==
    /\ pc = "Idle" \/ Returned
    /\ calls < MaxReceiveCalls
    /\ \E size0 \in CallerSizes :
        /\ calls' = calls + 1
        /\ op' = name
        /\ ops' = ops \cup {name}
        /\ startIndex' = readIndex
        /\ startOut' = Len(out)
        /\ startSize' = size0
        /\ payload_size' = size0
        /\ top' = -1
        /\ pc' = "WaitSync"
        /\ UNCHANGED <<recv_buffer, in, readIndex, out, serial, ret, arg, accepted>>

\* an operator with the parameters of WaitOutcome that goes back to hunting for the
\* sync byte after a mismatch
WaitOutcome_Hunt(running, offset) ==
    IF ~running THEN "WaitSync"
    ELSE IF offset = message_type_ofs THEN "ReadHeader" ELSE "WaitTag"

\* where the call stands after one waitFor: returned, or at the next line
WaitOutcome(running, offset) ==
    IF ~running THEN "Fail"
    ELSE IF offset = message_type_ofs THEN "ReadHeader" ELSE "WaitTag"

\* waitFor(sync); waitFor(tag byte): offset is the number of bytes matched so far
StepWaitFor(d) ==
    /\ Running(d)
    /\ pc \in {"WaitSync", "WaitTag"}
    /\ LET offset == IF pc = "WaitSync" THEN 0 ELSE readIndex - startIndex
           st == waitFor([buffer |-> recv_buffer[d], readIndex |-> readIndex,
                          offset |-> offset, running |-> TRUE], in, Prefix(d)[offset + 1])
       IN  /\ recv_buffer' = [recv_buffer EXCEPT ![d] = st.buffer]
           /\ readIndex' = st.readIndex
           /\ pc' = WaitOutcome(st.running, st.offset)
           /\ ret' = IF st.running THEN ret ELSE InvalidType
           /\ top' = offset
    /\ UNCHANGED <<in, out, serial, payload_size, op, startIndex, startOut, startSize,
                   calls, ops, arg, accepted>>

\* in.readBytes(recv_buffer+message_type_ofs, 4); payload_size = the size field
StepReadHeader(d) ==
    /\ Running(d)
    /\ pc = "ReadHeader"
    /\ LET h == readBytes(in, readIndex, recv_buffer[d], message_type_ofs, 4)
       IN  /\ recv_buffer' = [recv_buffer EXCEPT ![d] = h.buffer]
           /\ readIndex' = h.readIndex
           /\ payload_size' = Load16(h.buffer, payload_size_ofs)
    /\ top' = payload_ofs - 1
    /\ pc' = "ValidateTypeSize"
    /\ UNCHANGED <<in, out, serial, ret, op, startIndex, startOut, startSize,
                   calls, ops, arg, accepted>>

\* if (expected_size < 0 || expected_size != payload_size) { payload_size = 0; return -1; }
StepValidateTypeSize(d) ==
    /\ Running(d)
    /\ pc = "ValidateTypeSize"
    /\ LET message_type == Load16(recv_buffer[d], message_type_ofs)
           bad == TypeOrSizeBad(size(d, message_type), payload_size)
       IN  /\ pc' = IF bad THEN "Fail" ELSE "ReadPayloadAndCrc"
           /\ payload_size' = IF bad THEN 0 ELSE payload_size
           /\ ret' = IF bad THEN InvalidType ELSE ret
    /\ UNCHANGED <<recv_buffer, in, readIndex, out, serial, op, startIndex, startOut,
                   startSize, calls, ops, arg, accepted, top>>

\* in.readBytes(recv_buffer+payload_ofs, payload_size+4)
StepReadPayloadAndCrc(d) ==
    /\ Running(d)
    /\ pc = "ReadPayloadAndCrc"
    /\ LET p == readBytes(in, readIndex, recv_buffer[d], payload_ofs,
                          PayloadReadLength(payload_size))
       IN  /\ recv_buffer' = [recv_buffer EXCEPT ![d] = p.buffer]
           /\ readIndex' = p.readIndex
    /\ top' = payload_ofs + PayloadReadLength(payload_size) - 1
    /\ pc' = "VerifyCrc"
    /\ UNCHANGED <<in, out, serial, payload_size, ret, op, startIndex, startOut,
                   startSize, calls, ops, arg, accepted>>

\* if (crc != crc_in_buffer) { payload_size = 0; return -1; } return message_type;
\* the word compared lies past the end of recv_buffer for the largest payload, and
\* the comparison may then go either way
StepVerifyCrc(d) ==
    /\ Running(d)
    /\ pc = "VerifyCrc"
    /\ LET crc == crc32(recv_buffer[d], payload_ofs, payload_size)
           crc_matches == IF CrcOffset(payload_size) + 4 <= BufSize
                          THEN {crc = Load32(recv_buffer[d], CrcOffset(payload_size))}
                          ELSE BOOLEAN
       IN  \E crc_ok \in crc_matches :
            /\ pc' = IF crc_ok THEN "Success" ELSE "Fail"
            /\ ret' = IF crc_ok THEN Load16(recv_buffer[d], message_type_ofs) ELSE InvalidType
            /\ payload_size' = IF crc_ok THEN payload_size ELSE 0
            /\ top' = CrcOffset(payload_size) + 3
    /\ UNCHANGED <<recv_buffer, in, readIndex, out, serial, op, startIndex, startOut,
                   startSize, calls, ops, arg, accepted>>

\* one step of the running call
ReceiveStep ==
    \E d \in Dirs :
        \/ StepWaitFor(d)
        \/ StepReadHeader(d)
        \/ StepValidateTypeSize(d)
        \/ StepReadPayloadAndCrc(d)
        \/ StepVerifyCrc(d)

ReceiveNext ==
    \/ StartReceive("H2B", "H2B_ReceiveMessage")
    \/ StartReceive("B2H", "B2H_ReceiveMessage")
    \/ ReceiveStep

\* a call that has been entered goes on executing: ReceiveMessage is straight-line
\* code and the stream's read and readBytes return at once
ReceiveSpec == ReceiveInit /\ [][ReceiveNext]_vars /\ WF_vars(ReceiveStep)

(***************************************************************************)
(* Vocabulary of the properties                                             *)
(***************************************************************************)
\* the size tables as section 6 of the specification states them
SpecSizes(d) ==
    IF d = "H2B"
    THEN (dataCharacter :> 32) @@ (dataFrame :> 64) @@ (shutdown :> 0)
         @@ (updateFirmware :> 1028) @@ (mode :> 0) @@ (version :> 0)
         @@ (lights :> 16) @@ (validate :> 0) @@ (erase :> 0)
    ELSE (dataCharacter :> 32) @@ (updateFirmware :> 32) @@ (dataFrame :> 768)
         @@ (bootFrame :> 0) @@ (ack :> 4) @@ (version :> 40) @@ (validate :> 0)

RecvName(d) == IF d = "H2B" THEN "H2B_ReceiveMessage" ELSE "B2H_ReceiveMessage"
Relay == "ReceiveAndRewriteB2HMessage"

\* the last operation was a ReceiveMessage call of namespace d (the relay makes one)
Received(d) == op = RecvName(d) \/ (d = "B2H" /\ op = Relay)

\* the stream bytes from position pos on
Rest(pos) == SubSeq(in, pos + 1, Len(in))

\* at pos the stream holds the sync byte, the tag of d, and a type and a size
HeaderAt(d, pos) ==
    /\ pos + payload_ofs <= Len(in)
    /\ SubSeq(in, pos + 1, pos + 4) = Prefix(d)

TypeAt(pos) == in[pos + 5] + 256 * in[pos + 6]
SizeAt(pos) == in[pos + 7] + 256 * in[pos + 8]

\* at pos the stream holds a header of d whose type d knows and whose size is the
\* table's, and all of the payload and the trailer
FrameAt(d, pos) ==
    /\ HeaderAt(d, pos)
    /\ TypeAt(pos) \in DOMAIN SpecSizes(d)
    /\ SizeAt(pos) = SpecSizes(d)[TypeAt(pos)]
    /\ pos + payload_ofs + SizeAt(pos) + 4 <= Len(in)

PayloadAt(pos) == SubSeq(in, pos + payload_ofs + 1, pos + payload_ofs + SizeAt(pos))
TrailerAt(pos) ==
    SubSeq(in, pos + payload_ofs + SizeAt(pos) + 1, pos + payload_ofs + SizeAt(pos) + 4)

\* such a frame whose trailer is the CRC32 of its payload
ValidFrameAt(d, pos) == FrameAt(d, pos) /\ TrailerAt(pos) = CrcOf(PayloadAt(pos))

\* the bytes the last operation wrote to the outbound stream
Written == SubSeq(out, startOut + 1, Len(out))

HeaderName(d) == IF d = "H2B" THEN "H2B_populateHeader" ELSE "B2H_populateHeader"
SizeName(d) == IF d = "H2B" THEN "H2B_size" ELSE "B2H_size"
\* the sync byte and the tag of d as section 6 of the specification states them
SpecPrefix(d) == IF d = "H2B" THEN <<170, 72, 50, 66>> ELSE <<170, 66, 50, 72>>
Other(d) == IF d = "H2B" THEN "B2H" ELSE "H2B"

EncodeName(d) == IF d = "H2B" THEN "H2B_DataCharacterMsg" ELSE "B2H_DataCharacterMsg"
SendName(d) == IF d = "H2B" THEN "H2B_SendMessage" ELSE "B2H_SendMessage"

\* how many bytes of its text the last DataCharacterMsg had to copy
Copied == IF arg.numBytes < 31 THEN arg.numBytes ELSE 31

(***************************************************************************)
(* C1  Round trip.  Whenever ReceiveMessage of direction d starts where the *)
(* stream holds a valid frame of d (header as populateHeader writes it,     *)
(* payload, little-endian CRC32 of the payload), it returns the frame's     *)
(* type and sets payload_size to the table size, whatever the buffer held.  *)
(***************************************************************************)
C1_RoundTrip ==
    \A d \in Dirs :
        (Received(d) /\ ValidFrameAt(d, startIndex))
            => (ret = TypeAt(startIndex) /\ payload_size = SizeAt(startIndex))

(***************************************************************************)
(* C2  CRC verification.  Whenever ReceiveMessage returns a valid type, the *)
(* four stream bytes after the payload are the CRC32 of the payload         *)
(* received in that call; a frame whose trailer differs from that CRC is    *)
(* reported as invalid type with payload_size 0.                            *)
(***************************************************************************)
C2_CrcVerification ==
    \A d \in Dirs :
        Received(d) =>
            /\ (ret # InvalidType => ValidFrameAt(d, startIndex))
            /\ (FrameAt(d, startIndex) /\ TrailerAt(startIndex) # CrcOf(PayloadAt(startIndex))
                    => (ret = InvalidType /\ payload_size = 0))

(***************************************************************************)
(* C3  The relay does not forward failures.  When the B2H receive inside    *)
(* ReceiveAndRewriteB2HMessage fails, the invocation writes no byte to the  *)
(* outbound stream.  (Stated for the calls that end before the stream.)     *)
(***************************************************************************)
C3_NoForwardOnFailure ==
    (op = Relay /\ startIndex < readIndex /\ readIndex < Len(in) /\ ret = InvalidType)
        => Len(out) = startOut

(***************************************************************************)
(* C4  Uniform failure sentinel.  Whatever payload_size held before the     *)
(* call, when ReceiveMessage returns the invalid type payload_size is 0.    *)
(* (Stated for the calls that end before the stream does.)                  *)
(***************************************************************************)
C4_UniformSentinel ==
    \A d \in Dirs :
        (Received(d) /\ startIndex < readIndex /\ readIndex < Len(in) /\ ret = InvalidType)
            => payload_size = 0

(***************************************************************************)
(* C5  The relay forwards a valid frame.  After a successful receive the    *)
(* relay writes size + 8 + 4 bytes: the 8 header bytes, the payload, and    *)
(* the little-endian CRC32 it recomputed over the payload, which it stored  *)
(* at buffer offsets 8+size .. 8+size+3 before the write.                   *)
(***************************************************************************)
C5_RelayForwards ==
    (op = Relay /\ ret # InvalidType) =>
        LET buffer == recv_buffer["B2H"]
            crc == crc32(buffer, payload_ofs, payload_size)
        IN  /\ Len(Written) = payload_size + payload_ofs + 4
            /\ SubSeq(Written, 1, payload_ofs + payload_size)
                 = Slice(buffer, 0, payload_ofs + payload_size)
            /\ SubSeq(Written, payload_ofs + payload_size + 1, payload_ofs + payload_size + 4)
                 = crc
            /\ Load32(buffer, payload_ofs + payload_size) = crc

OneBitFromValidAt(d, pos) ==
    /\ FrameAt(d, pos)
    /\ \/ \E k \in 1..4, b \in 0..7 :
            FlipBit(TrailerAt(pos), k, b) = CrcOf(PayloadAt(pos))
       \/ /\ SizeAt(pos) > 0
          /\ \E b \in 0..7 : TrailerAt(pos) = CrcOf(FlipBit(PayloadAt(pos), 1, b))

C7_CrcSensitivity ==
    \A d \in Dirs :
        (Received(d) /\ OneBitFromValidAt(d, startIndex))
            => (ret = InvalidType /\ payload_size = 0)

(***************************************************************************)
(* C8  Resynchronisation by repeated calls.  When the stream is n >= 1      *)
(* bytes other than the sync byte followed by one valid frame of d, and     *)
(* only ReceiveMessage of d is called, each of the first n calls fails and  *)
(* consumes one byte, and call n+1 returns the frame's type and size.       *)
(***************************************************************************)
C8_Resync ==
    \A d \in Dirs : \A n \in 1..Len(in) :
        (/\ ops = {RecvName(d)}
         /\ \A i \in 1..n : in[i] # sync
         /\ ValidFrameAt(d, n)
         /\ Len(in) = n + payload_ofs + SizeAt(n) + 4)
            => /\ calls <= n => (ret = InvalidType /\ readIndex = calls)
               /\ calls = n + 1 => (ret = TypeAt(n) /\ payload_size = SizeAt(n))

(***************************************************************************)
(* C9  Abort on first mismatch.  When the first k stream bytes (k in 0..3)  *)
(* are the first k bytes of the direction's prefix and the next one is not  *)
(* the prefix's next byte, ReceiveMessage returns the invalid type having   *)
(* consumed exactly k+1 bytes: the mismatching byte is not examined again.  *)
(***************************************************************************)
\* the stream at pos matches k bytes of the prefix of d and then differs from it
MismatchAt(d, pos, k) ==
    /\ pos + k < Len(in)
    /\ SubSeq(in, pos + 1, pos + k) = SubSeq(Prefix(d), 1, k)
    /\ in[pos + k + 1] # Prefix(d)[k + 1]

C10_HuntingLoop ==
    \A d \in Dirs : \A n \in 1..Len(in) :
        (/\ Received(d)
         /\ startIndex + n <= Len(in)
         /\ \A i \in 1..n : in[startIndex + i] # sync
         /\ ValidFrameAt(d, startIndex + n))
            => ret = TypeAt(startIndex + n)

(***************************************************************************)
(* C11  Relay pass-through.  When ReceiveAndRewriteB2HMessage is invoked    *)
(* where the stream holds a valid B2H frame (no hook of this program        *)
(* modifies a payload), the bytes it writes to the outbound stream are the  *)
(* inbound frame: same header, same payload, same 4-byte CRC trailer.       *)
(***************************************************************************)
C11_RelayPassThrough ==
    (op = Relay /\ ValidFrameAt("B2H", startIndex))
        => Written = SubSeq(in, startIndex + 1,
                            startIndex + payload_ofs + SizeAt(startIndex) + 4)

(***************************************************************************)
(* C12  Relay output over a run.  Over any sequence of                      *)
(* ReceiveAndRewriteB2HMessage invocations the outbound stream holds        *)
(* exactly the frames the B2H receive accepted, in arrival order:           *)
(* invocations whose receive failed have added nothing.  (Stated for the    *)
(* runs that have not reached the end of the inbound stream.)               *)
(***************************************************************************)
C12_RelayOutputOverRun ==
    (ops = {Relay} /\ readIndex < Len(in)) => out = accepted

(***************************************************************************)
(* C13  The encoded text frame is receivable.  After DataCharacterMsg of d  *)
(* followed by SendMessage(out, 32) of d, the 44 bytes written are a        *)
(* complete frame: the last 4 are the little-endian CRC32 of the 32 payload *)
(* bytes before them.                                                       *)
(***************************************************************************)
C13_EncodedFrameComplete ==
    \A d \in Dirs :
        (/\ calls = 2
         /\ ops = {EncodeName(d), SendName(d)}
         /\ op = SendName(d)
         /\ startSize = 32)
            => /\ Len(Written) = 44
               /\ SubSeq(Written, 41, 44) = CrcOf(SubSeq(Written, 9, 40))

(***************************************************************************)
(* C14  CRC slot.  After DataCharacterMsg of either direction returns 32,   *)
(* the 32-bit value at buffer offset payload_ofs + 32 + 4 is the CRC32 of   *)
(* the 32 payload bytes at offsets 8..39.                                   *)
(***************************************************************************)
C14_CrcSlot ==
    \A d \in Dirs :
        op = EncodeName(d)
            => /\ ret = 32
               /\ Load32(recv_buffer[d], payload_ofs + ret + 4)
                      = CrcOf(Slice(recv_buffer[d], payload_ofs, 32))

\* "Hi" was encoded; the slot at 44 holds the CRC of the payload and the four
\* bytes before it do not
C14_Witness ==
    \E d \in Dirs :
        /\ op = EncodeName(d)
        /\ arg = [text |-> TextHi, numBytes |-> 2]
        /\ Slice(recv_buffer[d], payload_ofs, 2) = TextHi
        /\ Load32(recv_buffer[d], 44) = CrcOf(Slice(recv_buffer[d], payload_ofs, 32))
        /\ Load32(recv_buffer[d], 40) # CrcOf(Slice(recv_buffer[d], payload_ofs, 32))

(***************************************************************************)
(* C15  Text encode determinism.  After DataCharacterMsg(text, n) the 32    *)
(* payload bytes are the first min(n, 31) bytes of text followed only by    *)
(* zero bytes, whatever the buffer held before the call.                    *)
(***************************************************************************)
C15_EncodeDeterminism ==
    \A d \in Dirs :
        op = EncodeName(d)
            => Slice(recv_buffer[d], payload_ofs, 32)
                   = SubSeq(arg.text, 1, Copied) \o Zeros(32 - Copied)

(***************************************************************************)
(* C16  Text encode helper.  DataCharacterMsg(text, n), n >= 0, writes the  *)
(* direction's header for dataCharacter, copies exactly min(n, 31) bytes of *)
(* text to the start of the text field, writes a NUL at text index          *)
(* min(n, 31), leaves the rest of the field and the four bytes after it as  *)
(* they were, and returns 32.                                               *)
(***************************************************************************)
C16_TextEncodeHelper ==
    [][\A d \in Dirs :
         op' = EncodeName(d)
            => LET m == IF arg'.numBytes < 31 THEN arg'.numBytes ELSE 31
                   before == recv_buffer[d]
                   after == recv_buffer'[d]
               IN  /\ Slice(after, 0, payload_ofs)
                          = Prefix(d) \o LE16(dataCharacter) \o LE16(32)
                   /\ Slice(after, payload_ofs, m) = SubSeq(arg'.text, 1, m)
                   /\ At(after, payload_ofs + m) = 0
                   /\ Slice(after, payload_ofs + m + 1, 35 - m)
                          = Slice(before, payload_ofs + m + 1, 35 - m)
                   /\ ret' = 32]_vars

\* a text of 32 characters was cut to 31 and the NUL is the last byte of the field
C16_Witness ==
    \E d \in Dirs :
        /\ op = EncodeName(d)
        /\ arg = [text |-> LongText, numBytes |-> 32]
        /\ Slice(recv_buffer[d], payload_ofs, 31) = SubSeq(LongText, 1, 31)
        /\ At(recv_buffer[d], payload_ofs + 31) = 0
        /\ ret = 32

(***************************************************************************)
(* C17  Header population.  For every type T of direction d's table,        *)
(* populateHeader(buffer, T) of d writes 0xAA at byte 0, the tag of d at    *)
(* bytes 1..3, T little-endian at bytes 4..5 and the table size of T        *)
(* little-endian at bytes 6..7, returns that size, and writes no byte at    *)
(* offset 8 or beyond.                                                      *)
(***************************************************************************)
C17_HeaderPopulation ==
    [][\A d \in Dirs :
         (op' = HeaderName(d) /\ arg'.message_type \in DOMAIN SpecSizes(d))
            => LET T == arg'.message_type
                   before == recv_buffer[d]
                   after == recv_buffer'[d]
               IN  /\ Slice(after, 0, 4) = SpecPrefix(d)
                   /\ At(after, 4) = T % 256
                   /\ At(after, 5) = T \div 256
                   /\ At(after, 6) = SpecSizes(d)[T] % 256
                   /\ At(after, 7) = SpecSizes(d)[T] \div 256
                   /\ ret' = SpecSizes(d)[T]
                   /\ Slice(after, payload_ofs, BufSize - payload_ofs)
                          = Slice(before, payload_ofs, BufSize - payload_ofs)]_vars

\* the B2H header of dataFrame (size 768 = 0x0300) was written over a received
\* frame, whose payload is still behind it
C17_Witness ==
    /\ op = HeaderName("B2H")
    /\ arg.message_type = dataFrame
    /\ Slice(recv_buffer["B2H"], 0, payload_ofs) = <<170, 66, 50, 72, 102, 100, 0, 3>>
    /\ ret = 768
    /\ At(recv_buffer["B2H"], payload_ofs) # 0

(***************************************************************************)
(* C18  Size tables.  Over all 16-bit type codes, size of each direction    *)
(* gives the sizes of that direction's table (H2B: dataCharacter 32,        *)
(* dataFrame 64, shutdown 0, updateFirmware 1028, mode 0, version 0,        *)
(* lights 16, validate 0, erase 0; B2H: dataCharacter 32, updateFirmware    *)
(* 32, dataFrame 768, bootFrame 0, ack 4, version 40, validate 0) and -1    *)
(* for every other code.                                                    *)
(***************************************************************************)
C18_SizeTables ==
    \A d \in Dirs :
        op = SizeName(d)
            => ret = IF arg.message_type \in DOMAIN SpecSizes(d)
                     THEN SpecSizes(d)[arg.message_type]
                     ELSE -1

\* ack, which B2H knows with size 4, is unknown in H2B
C18_Witness ==
    /\ op = SizeName("H2B")
    /\ arg.message_type = 27489
    /\ ret = -1

C20_SendVerbatim ==
    [][\A d \in Dirs :
         op' = SendName(d)
            => /\ Len(out') = Len(out) + startSize' + 8 + 4
               /\ out' = out \o [i \in 1..(startSize' + 12) |-> At(recv_buffer[d], i - 1)]
               /\ recv_buffer' = recv_buffer]_vars

\* the 44 bytes of an encoded dataCharacter message were sent
C20_Witness ==
    \E d \in Dirs :
        /\ op = SendName(d)
        /\ startSize = 32
        /\ Len(Written) = 44
        /\ SubSeq(Written, 1, payload_ofs) = SpecPrefix(d) \o <<100, 99, 32, 0>>
        /\ SubSeq(Written, payload_ofs + 1, payload_ofs + 2) = TextHi

(***************************************************************************)
(* C21  Hooks do not modify.  processBody2Head returns false for every      *)
(* message type value, the invalid type -1 included, and neither it nor     *)
(* the hooks it dispatches to (Ack, DataCharacter, B2HDataFrame) change a   *)
(* byte of the B2H buffer.                                                  *)
(***************************************************************************)
C21_HooksDoNotModify ==
    [][op' = "processBody2Head" => (ret' = 0 /\ recv_buffer' = recv_buffer)]_vars

\* the dataCharacter hook ran on a received text and echoed its 32 characters
C21_Witness ==
    /\ op = "processBody2Head"
    /\ arg.message_type = 25444
    /\ Len(serial) = 32
    /\ serial = Slice(recv_buffer["B2H"], 8, 32)
    /\ ret = 0

(***************************************************************************)
(* C23  Unknown type in header population.  populateHeader with a type that *)
(* is not in the direction's table writes the sync byte, the tag and the    *)
(* type as for a known type, and 0xFFFF (-1 truncated to 16 bits) into the  *)
(* size field at bytes 6..7.                                                *)
(***************************************************************************)
C23_UnknownTypeHeader ==
    \A d \in Dirs :
        (op = HeaderName(d) /\ arg.message_type \notin DOMAIN SpecSizes(d))
            => /\ Slice(recv_buffer[d], 0, 4) = SpecPrefix(d)
               /\ At(recv_buffer[d], 4) = arg.message_type % 256
               /\ At(recv_buffer[d], 5) = arg.message_type \div 256
               /\ At(recv_buffer[d], 6) = 255
               /\ At(recv_buffer[d], 7) = 255

\* the H2B header for the type VS = 0x7376, which no table holds
C23_Witness ==
    /\ op = HeaderName("H2B")
    /\ arg.message_type = 29558
    /\ Slice(recv_buffer["H2B"], 0, 8) = <<170, 72, 50, 66, 118, 115, 255, 255>>

(***************************************************************************)
(* C22  Size table closure.  For every type known to a direction, the size  *)
(* that direction's populateHeader writes into the size field is the one    *)
(* size its ReceiveMessage lets pass: a frame of that type goes on to have  *)
(* its payload and trailer read exactly when it declares that size.         *)
(***************************************************************************)
C22_SizeTableClosure ==
    \A d \in Dirs :
        (/\ Received(d)
         /\ HeaderAt(d, startIndex)
         /\ TypeAt(startIndex) \in DOMAIN SpecSizes(d)
         /\ startIndex + payload_ofs + SizeAt(startIndex) + 4 <= Len(in))
            => ((readIndex = startIndex + payload_ofs + SizeAt(startIndex) + 4)
                  <=> (Load16(populateHeader(d, <<>>, TypeAt(startIndex)), payload_size_ofs)
                          = SizeAt(startIndex)))

\* a B2H updateFirmware frame with the header populateHeader writes (size 32, not
\* the 1028 of H2B) had its payload and trailer read
C22_Witness ==
    /\ op = RecvName("B2H")
    /\ Len(in) >= startIndex + 44
    /\ SubSeq(in, startIndex + 1, startIndex + payload_ofs)
           = populateHeader("B2H", <<>>, updateFirmware)
    /\ SizeAt(startIndex) = 32
    /\ readIndex = startIndex + 44

(***************************************************************************)
(* C24  Buffer bounds.  Every index of recv_buffer that ReceiveMessage,     *)
(* DataCharacterMsg and ReceiveAndRewriteB2HMessage read or write lies      *)
(* inside the buffer of 1028 + 8 + 4 = 1040 bytes (indices 0..1039),        *)
(* whatever the stream and the type, H2B updateFirmware with its 1028       *)
(* payload bytes included.                                                  *)
(***************************************************************************)
C24_BufferBounds ==
    op \in {RecvName(d) : d \in Dirs} \cup {EncodeName(d) : d \in Dirs} \cup {Relay}
        => top < BufSize

(***************************************************************************)
(* C25  Receive depends only on the stream.  What a ReceiveMessage call     *)
(* returns, the payload_size it leaves and the number of stream bytes it    *)
(* consumes are those of the same call, on the same stream from the same    *)
(* position, made with the direction's buffer in its initial state: the     *)
(* contents earlier receives or encode helpers left in the buffer make no   *)
(* difference.                                                              *)
(***************************************************************************)
C25_ReceiveDependsOnStreamOnly ==
    \A d \in Dirs :
        (Received(d) /\ ops \subseteq {RecvName(d), EncodeName(d)}) =>
            \E r \in ReceiveMessage(d, <<>>, in, startIndex, startSize) :
                /\ r.ret = ret
                /\ r.payload_size = payload_size
                /\ r.readIndex = readIndex

\* the last ReceiveMessage of d started at a header of d whose type d does not
\* know or whose size is not the table's
RejectedHeader(d) ==
    /\ Received(d)
    /\ HeaderAt(d, startIndex)
    /\ \/ TypeAt(startIndex) \notin DOMAIN SpecSizes(d)
       \/ SizeAt(startIndex) # SpecSizes(d)[TypeAt(startIndex)]

RECURSIVE FrameStart(_)
\* where the frame number i + 1 of the stream starts, the frames before it taken
\* at their declared sizes
FrameStart(i) ==
    IF i = 0 THEN 0
    ELSE LET b == FrameStart(i - 1)
         IN  IF b + payload_ofs <= Len(in) THEN b + payload_ofs + SizeAt(b) + 4 ELSE b

RECURSIVE FramesFrom(_, _)
\* the stream from pos on is a concatenation of valid frames of d
FramesFrom(d, pos) ==
    \/ pos = Len(in)
    \/ ValidFrameAt(d, pos) /\ FramesFrom(d, pos + payload_ofs + SizeAt(pos) + 4)

(***************************************************************************)
(* C28  Alignment is preserved.  On a stream that is a concatenation of     *)
(* valid frames of a direction, read from its first byte by ReceiveMessage  *)
(* calls of that direction only, every call succeeds: the i-th call starts  *)
(* at the i-th frame, returns its type and its size, and leaves the stream  *)
(* at the sync byte of the next frame.                                      *)
(***************************************************************************)
C28_AlignmentPreserved ==
    \A d \in Dirs :
        (/\ ops = {RecvName(d)}
         /\ FramesFrom(d, 0)
         /\ FrameStart(calls - 1) < Len(in))
            => /\ startIndex = FrameStart(calls - 1)
               /\ ret = TypeAt(startIndex)
               /\ payload_size = SizeAt(startIndex)
               /\ readIndex = FrameStart(calls)

NamesOf(d) == {HeaderName(d), SizeName(d), EncodeName(d), RecvName(d), SendName(d)}

(***************************************************************************)
(* C30  Direction buffers are isolated.  No H2B operation (populateHeader,  *)
(* DataCharacterMsg, ReceiveMessage, SendMessage) changes a byte of the B2H *)
(* buffer; no B2H operation and no relay invocation changes a byte of the   *)
(* H2B buffer; and the relay works on the B2H buffer alone: its receive is  *)
(* the B2H receive on the B2H buffer and the bytes it writes out are the    *)
(* first bytes of the B2H buffer.                                           *)
(***************************************************************************)
C30_BuffersIsolated ==
    [][/\ op' \in NamesOf("H2B") => recv_buffer'["B2H"] = recv_buffer["B2H"]
       /\ op' \in NamesOf("B2H") \cup {Relay} => recv_buffer'["H2B"] = recv_buffer["H2B"]
       /\ op' = Relay =>
            \E r \in ReceiveMessage("B2H", recv_buffer["B2H"], in, readIndex, 0) :
                /\ ret' = r.ret
                /\ readIndex' = r.readIndex
                /\ SubSeq(out', Len(out) + 1, Len(out'))
                     = Slice(recv_buffer'["B2H"], 0, r.payload_size + payload_ofs + 4)]_vars

\* H2B::DataCharacterMsg has run after a B2H receive: each buffer holds the
\* prefix of its own direction
C30_Witness ==
    /\ op = EncodeName("H2B")
    /\ RecvName("B2H") \in ops
    /\ Slice(recv_buffer["B2H"], 0, 4) = SpecPrefix("B2H")
    /\ Slice(recv_buffer["H2B"], 0, 4) = SpecPrefix("H2B")

(***************************************************************************)
(* C34  Debug echo is bounded.  The DataCharacter hook writes to Serial     *)
(* exactly the bytes of the 32-byte text field that precede its first NUL,  *)
(* in order, and all 32 bytes when the field holds no NUL; it reads no byte *)
(* outside the field and returns false.                                     *)
(***************************************************************************)
C34_DebugEchoBounded ==
    (op = "processBody2Head" /\ arg.message_type = dataCharacter) =>
        LET field == Slice(recv_buffer["B2H"], payload_ofs, 32)
        IN  /\ \E n \in 0..32 :
                /\ serial = SubSeq(field, 1, n)
                /\ \A i \in 1..n : field[i] # 0
                /\ n < 32 => field[n + 1] = 0
            /\ payload_ofs <= top
            /\ top < payload_ofs + 32
            /\ ret = 0

\* the field held "Hi", a NUL and another character: only "Hi" was echoed
C34_Witness ==
    /\ op = "processBody2Head"
    /\ arg.message_type = dataCharacter
    /\ Slice(recv_buffer["B2H"], payload_ofs, 4) = <<72, 105, 0, 33>>
    /\ serial = <<72, 105>>
    /\ ret = 0

(***************************************************************************)
(* C33  The relay performs one cycle per invocation.  Each invocation of    *)
(* ReceiveAndRewriteB2HMessage makes exactly one B2H ReceiveMessage call    *)
(* (the stream position, the returned type and payload_size afterwards are  *)
(* those of one call from where the invocation started, with no retry after *)
(* a failure), then exactly one processBody2Head dispatch on what that call *)
(* received (Serial grows by that dispatch's echo, once), then at most one  *)
(* write to the outbound stream, of the buffer as the dispatch left it.     *)
(***************************************************************************)
C33_RelayOneCycle ==
    [][op' = Relay =>
        \E r \in ReceiveMessage("B2H", recv_buffer["B2H"], in, readIndex, 0) :
            LET hook == processBody2Head(r.ret, r.buffer)
                n == r.payload_size + payload_ofs + 4
            IN  /\ readIndex' = r.readIndex
                /\ ret' = r.ret
                /\ payload_size' = r.payload_size
                /\ serial' = serial \o hook.echo
                /\ \/ out' = out
                   \/ /\ Len(out') = Len(out) + n
                      /\ SubSeq(out', 1, Len(out)) = out
                      /\ SubSeq(out', Len(out) + 1, Len(out) + payload_ofs + r.payload_size)
                           = Slice(hook.buffer, 0, payload_ofs + r.payload_size)]_vars

\* the relay's receive failed on a garbage byte with a frame right behind it: the
\* invocation ended there, one byte consumed, one write made
C33_Witness ==
    /\ op = Relay
    /\ ret = InvalidType
    /\ readIndex = startIndex + 1
    /\ FrameAt("B2H", readIndex)
    /\ Len(out) = startOut + payload_ofs + 4

(***************************************************************************)
(* C32  End of stream is not a frame.  When the stream is empty, or ends    *)
(* before a complete frame has been supplied, ReceiveMessage returns the    *)
(* invalid type: it reports success only for a frame whose 8 + size + 4     *)
(* bytes were all read from the stream in that call.                        *)
(***************************************************************************)
C32_EndOfStreamNotFrame ==
    \A d \in Dirs :
        (Received(d) /\ ret # InvalidType)
            => readIndex - startIndex = payload_ofs + payload_size + 4

\* the states of a ReceiveMessage call as section 5 of the specification orders them
SpecOrder == <<"WaitSync", "WaitTag", "ReadHeader", "ValidateTypeSize",
               "ReadPayloadAndCrc", "VerifyCrc">>
\* the place of a state in that order; the two terminal states come last
Rank(state) ==
    IF \E i \in 1..Len(SpecOrder) : SpecOrder[i] = state
    THEN CHOOSE i \in 1..Len(SpecOrder) : SpecOrder[i] = state
    ELSE Len(SpecOrder) + 1

====
